---------------------------- MODULE Spec2Model ----------------------------
(***************************************************************************)
(* Color-space construction and RGB -> XYZ conversion of rust-color        *)
(* (src/color_space/color_space.rs), with the scalar type T instantiated   *)
(* to IEEE-754 binary32 (f32).                                             *)
(*                                                                         *)
(* A scalar is a record [c, m, e]:                                         *)
(*   c = "num": the value m * 2^e, m a signed integer with                 *)
(*              2^23 <= |m| < 2^24 (normal), or |m| < 2^23 and e = -149    *)
(*              (subnormal), or m = 0 and e = 0 (zero; the sign of zero    *)
(*              is not kept);                                              *)
(*   c = "inf": m = 1 or -1;   c = "nan".                                  *)
(* Every arithmetic operator rounds to nearest, ties to even, as the       *)
(* hardware does for + - * / and sqrt.                                     *)
(***************************************************************************)
EXTENDS Integers, Sequences, FiniteSets, TLC

Pow2(k) == 2^k

TwoP23 == Pow2(23)
TwoP24 == Pow2(24)
MinExp == 0 - 149
MaxExp == 127 - 23

NaN == [c |-> "nan", m |-> 0, e |-> 0]
Inf(s) == [c |-> "inf", m |-> s, e |-> 0]
Zero == [c |-> "num", m |-> 0, e |-> 0]

IsNaN(a) == a.c = "nan"
IsInf(a) == a.c = "inf"
IsFinite(a) == a.c = "num"

Sign(n) == IF n < 0 THEN 0 - 1 ELSE IF n > 0 THEN 1 ELSE 0
AbsInt(n) == IF n < 0 THEN 0 - n ELSE n

\* number of binary digits of n, 0 <= n < 2^31, by bisection
BitLen(n) ==
    IF n = 0 THEN 0
    ELSE IF n >= 1073741824 THEN 31
    ELSE IF n < 32768
         THEN IF n < 128
              THEN IF n < 8
                   THEN IF n < 2
                        THEN 1
                        ELSE IF n < 4
                             THEN 2
                             ELSE 3
                   ELSE IF n < 32
                        THEN IF n < 16
                             THEN 4
                             ELSE 5
                        ELSE IF n < 64
                             THEN 6
                             ELSE 7
              ELSE IF n < 2048
                   THEN IF n < 512
                        THEN IF n < 256
                             THEN 8
                             ELSE 9
                        ELSE IF n < 1024
                             THEN 10
                             ELSE 11
                   ELSE IF n < 8192
                        THEN IF n < 4096
                             THEN 12
                             ELSE 13
                        ELSE IF n < 16384
                             THEN 14
                             ELSE 15
         ELSE IF n < 4194304
              THEN IF n < 262144
                   THEN IF n < 65536
                        THEN 16
                        ELSE IF n < 131072
                             THEN 17
                             ELSE 18
                   ELSE IF n < 1048576
                        THEN IF n < 524288
                             THEN 19
                             ELSE 20
                        ELSE IF n < 2097152
                             THEN 21
                             ELSE 22
              ELSE IF n < 67108864
                   THEN IF n < 16777216
                        THEN IF n < 8388608
                             THEN 23
                             ELSE 24
                        ELSE IF n < 33554432
                             THEN 25
                             ELSE 26
                   ELSE IF n < 268435456
                        THEN IF n < 134217728
                             THEN 27
                             ELSE 28
                        ELSE IF n < 536870912
                             THEN 29
                             ELSE 30

\* The one element of a singleton. Only({e(x) : x \in {a}}) is e(a) with a
\* computed once and x bound to its value: an operand is evaluated before the
\* operation, as an argument is in the source.
Only(S) == CHOOSE v \in S : TRUE

\* the scalar s * q * 2^e for 0 <= q <= 2^24 already rounded to the format
Pack(s, q, e) ==
    IF q = 0 THEN Zero
    ELSE IF q = TwoP24
         THEN (IF e + 1 > MaxExp THEN Inf(s)
               ELSE [c |-> "num", m |-> s * TwoP23, e |-> e + 1])
         ELSE IF e > MaxExp THEN Inf(s)
              ELSE [c |-> "num", m |-> s * q, e |-> e]

\* M rounded to nearest, ties to even, after dropping its k > 0 low bits; st = 1
\* when non-zero bits below M were already dropped
RoundShift(M, k, st) ==
    LET q    == M \div Pow2(k)
        rem  == M % Pow2(k)
        half == Pow2(k - 1)
    IN  IF rem > half \/ (rem = half /\ (st = 1 \/ q % 2 = 1)) THEN q + 1 ELSE q

\* the binary32 nearest to s * (M + st * f) * 2^E with 0 < f < 1, ties to even;
\* M < 2^31, and st = 1 only with M >= 2^25
RoundPack(s0, M0, E0, st0) ==
    Only({ IF M = 0 THEN Zero
           ELSE Only({ IF k <= 0 THEN Only({Pack(s, q, E + k) : q \in {M * Pow2(0 - k)}})
                       ELSE IF k > BitLen(M) + 1 THEN Zero
                       ELSE Only({Pack(s, q, E + k) : q \in {RoundShift(M, k, st)}})
                       : k \in {IF E + BitLen(M) - 24 < MinExp THEN MinExp - E
                                ELSE BitLen(M) - 24} })
           : s \in {s0}, M \in {M0}, E \in {E0}, st \in {st0} })

\* an integer |n| < 2^24 as a scalar (exact)
FromInt(n) == RoundPack(Sign(n), AbsInt(n), 0, 0)

FNeg(a0) == Only({ IF a.c = "nan" THEN a ELSE [a EXCEPT !.m = 0 - a.m] : a \in {a0} })
FAbs(a0) == Only({ IF a.c = "nan" THEN a ELSE [a EXCEPT !.m = AbsInt(a.m)] : a \in {a0} })

\* x + y for finite x, y with x.e >= y.e: three guard bits and a sticky bit
AddOrdered(x, y) ==
    LET d  == x.e - y.e
        X  == AbsInt(x.m) * 8
        Y  == AbsInt(y.m) * 8
        yq == IF d > 27 THEN 0 ELSE Y \div Pow2(d)
        ys == IF d > 27 THEN (IF Y = 0 THEN 0 ELSE 1)
              ELSE (IF Y % Pow2(d) = 0 THEN 0 ELSE 1)
        sx == Sign(x.m)
        sy == Sign(y.m)
    IN  IF ys = 0
        THEN LET S == sx * X + sy * yq
             IN  RoundPack(Sign(S), AbsInt(S), x.e - 3, 0)
        ELSE IF sx = sy
             THEN RoundPack(sx, X + yq, x.e - 3, 1)
             ELSE RoundPack(sx, X - yq - 1, x.e - 3, 1)

FAdd(a0, b0) ==
    Only({ IF a.c = "nan" \/ b.c = "nan" THEN NaN
           ELSE IF a.c = "inf"
                THEN (IF b.c = "inf" /\ b.m # a.m THEN NaN ELSE a)
           ELSE IF b.c = "inf" THEN b
           ELSE IF a.m = 0 THEN b
           ELSE IF b.m = 0 THEN a
           ELSE IF a.e >= b.e THEN AddOrdered(a, b) ELSE AddOrdered(b, a)
           : a \in {a0}, b \in {b0} })

FSub(a, b) == FAdd(a, FNeg(b))

\* a finite non-zero scalar's magnitude as <<mantissa in [2^23, 2^24), exponent>>
Normalized(a) ==
    IF AbsInt(a.m) >= TwoP23 THEN <<AbsInt(a.m), a.e>>
    ELSE LET n == BitLen(AbsInt(a.m))
         IN  <<AbsInt(a.m) * Pow2(24 - n), a.e - (24 - n)>>

\* the 48-bit product of two 24-bit mantissas as <<top 26 bits, low 22 bits>>,
\* by 12-bit halves
MulParts(x, y) ==
    LET ah  == x \div 4096
        al  == x % 4096
        bh  == y \div 4096
        bl  == y % 4096
        mid == ah * bl + al * bh
        t   == (mid % 4096) * 4096 + al * bl
        top == ah * bh + mid \div 4096 + t \div TwoP24
        low == t % TwoP24
    IN  <<top * 4 + low \div Pow2(22), low % Pow2(22)>>

FMul(a0, b0) ==
    Only({ IF a.c = "nan" \/ b.c = "nan" THEN NaN
           ELSE IF a.c = "inf" \/ b.c = "inf"
                THEN (IF a.m = 0 \/ b.m = 0 THEN NaN ELSE Inf(Sign(a.m) * Sign(b.m)))
           ELSE IF a.m = 0 \/ b.m = 0 THEN Zero
           ELSE Only({ Only({ RoundPack(Sign(a.m) * Sign(b.m), p[1], na[2] + nb[2] + 22,
                                        IF p[2] = 0 THEN 0 ELSE 1)
                              : p \in {MulParts(na[1], nb[1])} })
                       : na \in {Normalized(a)}, nb \in {Normalized(b)} })
           : a \in {a0}, b \in {b0} })

\* long division, seven quotient bits a step: <<quotient, remainder>> of r * 2^(7k) by d
RECURSIVE DivSteps(_, _, _, _)
DivSteps(q0, r0, d, k) ==
    IF k = 0 THEN <<q0, r0>>
    ELSE Only({ DivSteps(q * 128 + (r * 128) \div d, (r * 128) % d, d, k - 1)
                : q \in {q0}, r \in {r0} })

FDiv(a0, b0) ==
    Only({ IF a.c = "nan" \/ b.c = "nan" THEN NaN
           ELSE IF a.c = "inf"
                THEN (IF b.c = "inf" THEN NaN
                      ELSE Inf(a.m * (IF b.m < 0 THEN 0 - 1 ELSE 1)))
           ELSE IF b.c = "inf" THEN Zero
           ELSE IF b.m = 0
                THEN (IF a.m = 0 THEN NaN ELSE Inf(Sign(a.m)))
           ELSE IF a.m = 0 THEN Zero
           ELSE Only({ Only({ RoundPack(Sign(a.m) * Sign(b.m), qr[1], na[2] - nb[2] - 28,
                                        IF qr[2] = 0 THEN 0 ELSE 1)
                              : qr \in {DivSteps(na[1] \div nb[1], na[1] % nb[1], nb[1], 4)} })
                       : na \in {Normalized(a)}, nb \in {Normalized(b)} })
           : a \in {a0}, b \in {b0} })

\* bitwise square root: k more pairs of radicand bits, taken from M2 while i >= 0
\* and zero afterwards; <<root, remainder>>
RECURSIVE SqrtSteps(_, _, _, _, _)
SqrtSteps(root0, r0, M2, i0, k) ==
    IF k = 0 THEN <<root0, r0>>
    ELSE Only({ Only({ IF rr >= root * 4 + 1
                       THEN SqrtSteps(root * 2 + 1, rr - (root * 4 + 1), M2, i - 1, k - 1)
                       ELSE SqrtSteps(root * 2, rr, M2, i - 1, k - 1)
                       : rr \in {r * 4 + (IF i >= 0 THEN (M2 \div Pow2(2 * i)) % 4 ELSE 0)} })
                : root \in {root0}, r \in {r0}, i \in {i0} })

FSqrt(a0) ==
    Only({ IF a.c = "nan" THEN NaN
           ELSE IF a.m < 0 THEN NaN
           ELSE IF a.c = "inf" \/ a.m = 0 THEN a
           ELSE Only({ Only({ RoundPack(1, sr[1], (na[2] - (na[2] % 2)) \div 2 - 14,
                                        IF sr[2] = 0 THEN 0 ELSE 1)
                              : sr \in {SqrtSteps(0, 0,
                                                  IF na[2] % 2 = 0 THEN na[1] ELSE na[1] * 2,
                                                  12, 27)} })
                       : na \in {Normalized(a)} })
           : a \in {a0} })

\* the remainder of r * 2^k divided by d, r < d < 2^24, six doublings a step
RECURSIVE ModSteps(_, _, _)
ModSteps(r0, d, k) ==
    IF k = 0 THEN r0
    ELSE IF k >= 6 THEN Only({ ModSteps((r * 64) % d, d, k - 6) : r \in {r0} })
    ELSE Only({ ModSteps((r * 2) % d, d, k - 1) : r \in {r0} })

\* a % b of T: the remainder of the truncated division, exact, with the sign of a
FMod(a0, b0) ==
    Only({ IF a.c = "nan" \/ b.c = "nan" \/ a.c = "inf" THEN NaN
           ELSE IF b.c = "inf" THEN a
           ELSE IF b.m = 0 THEN NaN
           ELSE IF a.m = 0 THEN a
           ELSE Only({ IF na[2] < nb[2] THEN a
                       ELSE RoundPack(Sign(a.m),
                                      ModSteps(na[1] % nb[1], nb[1], na[2] - nb[2]),
                                      nb[2], 0)
                       : na \in {Normalized(a)}, nb \in {Normalized(b)} })
           : a \in {a0}, b \in {b0} })

\* a < b, a <= b, a == b as the comparison operators of T (false on NaN)
FLt(a0, b0) ==
    Only({ IF a.c = "nan" \/ b.c = "nan" THEN FALSE
           ELSE IF a.c = "inf" THEN a.m < 0 /\ ~(b.c = "inf" /\ b.m < 0)
           ELSE IF b.c = "inf" THEN b.m > 0
           ELSE FSub(a, b).m < 0
           : a \in {a0}, b \in {b0} })

FEq(a0, b0) == Only({ a.c # "nan" /\ b.c # "nan" /\ a = b : a \in {a0}, b \in {b0} })

FLe(a0, b0) == Only({ FLt(a, b) \/ FEq(a, b) : a \in {a0}, b \in {b0} })

\* the decimal literal n / 10^d of the source, as the compiler rounds it (n, 10^d < 2^24)
Dec(n, d) == FDiv(FromInt(n), FromInt(10^d))

One == FromInt(1)

\* T::epsilon() of f32
Epsilon == [c |-> "num", m |-> TwoP23, e |-> 0 - 46]

(***************************************************************************)
(* linalg::Matrix3<T>: nine scalars in row-major order, m[1] .. m[9].      *)
(***************************************************************************)
Matrix3_new(values) == values

Identity3 == <<One, Zero, Zero, Zero, One, Zero, Zero, Zero, One>>

transform_vector(m0, vec0) ==
    Only({ << FAdd(FAdd(FMul(m[1], vec[1]), FMul(m[2], vec[2])), FMul(m[3], vec[3])),
              FAdd(FAdd(FMul(m[4], vec[1]), FMul(m[5], vec[2])), FMul(m[6], vec[3])),
              FAdd(FAdd(FMul(m[7], vec[1]), FMul(m[8], vec[2])), FMul(m[9], vec[3])) >>
           : m \in {m0}, vec \in {vec0} })

\* the 2x2 minor m[a] * m[d] - m[b] * m[c]
Minor(m, a, b, c, d) == FSub(FMul(m[a], m[d]), FMul(m[b], m[c]))

determinant(m0) ==
    Only({ FAdd(FSub(FMul(m[1], Minor(m, 5, 6, 8, 9)),
                     FMul(m[2], Minor(m, 4, 6, 7, 9))),
                FMul(m[3], Minor(m, 4, 5, 7, 8)))
           : m \in {m0} })

None == [some |-> FALSE]
Some(v) == [some |-> TRUE, v |-> v]

\* Option<Matrix3<T>>: None when the determinant is within epsilon of zero
inverse(m0) ==
    Only({ Only({ IF FLt(FAbs(det), Epsilon) THEN None
                  ELSE Some(<< FDiv(Minor(m, 5, 6, 8, 9), det),
                               FDiv(Minor(m, 3, 2, 9, 8), det),
                               FDiv(Minor(m, 2, 3, 5, 6), det),
                               FDiv(Minor(m, 6, 4, 9, 7), det),
                               FDiv(Minor(m, 1, 3, 7, 9), det),
                               FDiv(Minor(m, 3, 1, 6, 4), det),
                               FDiv(Minor(m, 4, 5, 7, 8), det),
                               FDiv(Minor(m, 2, 1, 8, 7), det),
                               FDiv(Minor(m, 1, 2, 4, 5), det) >>)
                  : det \in {determinant(m)} })
           : m \in {m0} })

\* the matrix product a x b
MatMul(a0, b0) ==
    Only({ [k \in 1..9 |->
              LET r == (k - 1) \div 3
                  c == (k - 1) % 3
              IN  FAdd(FAdd(FMul(a[3 * r + 1], b[c + 1]), FMul(a[3 * r + 2], b[c + 4])),
                       FMul(a[3 * r + 3], b[c + 7]))]
           : a \in {a0}, b \in {b0} })

(***************************************************************************)
(* color_space::primary::RgbPrimary, xyz::Xyz, rgb::Rgb                    *)
(***************************************************************************)
RgbPrimary_new(x, y) == [x |-> x, y |-> y]
RgbPrimary_to_tuple(p) == <<p.x, p.y>>

Xyz_from_channels(x, y, z) == <<x, y, z>>
Xyz_to_tuple(c) == c

Rgb_from_channels(r, g, b) == <<r, g, b>>
Rgb_to_tuple(c) == c

(***************************************************************************)
(* LinearColorSpace<T>                                                     *)
(***************************************************************************)
\* calc_transform_vector with z = (1 - x) / y: the "- iy" of line 121 left out
calc_transform_vector_without_y(primary_vec) ==
    Only({ <<FDiv(ix, iy), One, FDiv(FSub(One, ix), iy)>>
           : ix \in {primary_vec[1]}, iy \in {primary_vec[2]} })

calc_transform_vector(primary_vec) ==
    Only({ LET one == One
               x   == FDiv(ix, iy)
               y   == one
               z   == FDiv(FSub(FSub(one, ix), iy), iy)
           IN  <<x, y, z>>
           : ix \in {primary_vec[1]}, iy \in {primary_vec[2]} })

\* build_transform scaling the rows of the primary matrix by (sr, sg, sb)
\* instead of its columns
build_transform_rows_scaled(red_primary, green_primary, blue_primary, white_point) ==
    Only({ Only({ IF ~inv_transform.some THEN None
                  ELSE Only({ Some(Matrix3_new(
                                << FMul(s[1], r[1]), FMul(s[1], g[1]), FMul(s[1], b[1]),
                                   FMul(s[2], r[2]), FMul(s[2], g[2]), FMul(s[2], b[2]),
                                   FMul(s[3], r[3]), FMul(s[3], g[3]), FMul(s[3], b[3]) >>))
                              : s \in {transform_vector(inv_transform.v,
                                                        Xyz_to_tuple(white_point))} })
                  : inv_transform \in {inverse(Matrix3_new(
                        <<r[1], g[1], b[1], r[2], g[2], b[2], r[3], g[3], b[3]>>))} })
           : r \in {calc_transform_vector(RgbPrimary_to_tuple(red_primary))},
             g \in {calc_transform_vector(RgbPrimary_to_tuple(green_primary))},
             b \in {calc_transform_vector(RgbPrimary_to_tuple(blue_primary))} })

\* Some(forward matrix), or None where line 106's unwrap() panics
\* build_transform with the three direction vectors as the rows of the primary
\* matrix instead of its columns
build_transform_directions_as_rows(red_primary, green_primary, blue_primary, white_point) ==
    Only({ Only({ IF ~inv_transform.some THEN None
                  ELSE Only({ Some(Matrix3_new(
                                << FMul(s[1], r[1]), FMul(s[2], g[1]), FMul(s[3], b[1]),
                                   FMul(s[1], r[2]), FMul(s[2], g[2]), FMul(s[3], b[2]),
                                   FMul(s[1], r[3]), FMul(s[2], g[3]), FMul(s[3], b[3]) >>))
                              : s \in {transform_vector(inv_transform.v,
                                                        Xyz_to_tuple(white_point))} })
                  : inv_transform \in {inverse(Matrix3_new(
                        <<r[1], r[2], r[3], g[1], g[2], g[3], b[1], b[2], b[3]>>))} })
           : r \in {calc_transform_vector(RgbPrimary_to_tuple(red_primary))},
             g \in {calc_transform_vector(RgbPrimary_to_tuple(green_primary))},
             b \in {calc_transform_vector(RgbPrimary_to_tuple(blue_primary))} })

build_transform(red_primary, green_primary, blue_primary, white_point) ==
    Only({ Only({ IF ~inv_transform.some THEN None
                  ELSE Only({ Some(Matrix3_new(
                                << FMul(s[1], r[1]), FMul(s[2], g[1]), FMul(s[3], b[1]),
                                   FMul(s[1], r[2]), FMul(s[2], g[2]), FMul(s[3], b[2]),
                                   FMul(s[1], r[3]), FMul(s[2], g[3]), FMul(s[3], b[3]) >>))
                              : s \in {transform_vector(inv_transform.v,
                                                        Xyz_to_tuple(white_point))} })
                  : inv_transform \in {inverse(Matrix3_new(
                        <<r[1], g[1], b[1], r[2], g[2], b[2], r[3], g[3], b[3]>>))} })
           : r \in {calc_transform_vector(RgbPrimary_to_tuple(red_primary))},
             g \in {calc_transform_vector(RgbPrimary_to_tuple(green_primary))},
             b \in {calc_transform_vector(RgbPrimary_to_tuple(blue_primary))} })

NoPanic == "none"
PanicUnwrap == "unwrap() on None, color_space.rs:106"
PanicExpect == "expect(Singular transformation matrix), color_space.rs:66"

\* LinearColorSpace::new without its second inversion: the forward matrix is
\* stored in both fields
LinearColorSpace_new_uninverted(red, green, blue, white_point) ==
    Only({ IF ~forward_transform.some THEN [panic |-> PanicUnwrap]
           ELSE [panic |-> NoPanic,
                 value |-> [red_primary   |-> red,
                            green_primary |-> green,
                            blue_primary  |-> blue,
                            white_point   |-> white_point,
                            xyz_transform |-> forward_transform.v,
                            inv_transform |-> forward_transform.v]]
           : forward_transform \in {build_transform(red, green, blue, white_point)} })

\* LinearColorSpace::new falling back to identity transforms where an inversion
\* fails, instead of panicking
LinearColorSpace_new_identity_fallback(red, green, blue, white_point) ==
    Only({ IF forward_transform.some /\ inverse(forward_transform.v).some
           THEN [panic |-> NoPanic,
                 value |-> [red_primary   |-> red,
                            green_primary |-> green,
                            blue_primary  |-> blue,
                            white_point   |-> white_point,
                            xyz_transform |-> forward_transform.v,
                            inv_transform |-> inverse(forward_transform.v).v]]
           ELSE [panic |-> NoPanic,
                 value |-> [red_primary   |-> red,
                            green_primary |-> green,
                            blue_primary  |-> blue,
                            white_point   |-> white_point,
                            xyz_transform |-> Identity3,
                            inv_transform |-> Identity3]]
           : forward_transform \in {build_transform(red, green, blue, white_point)} })

\* the outcome of LinearColorSpace::new: the value returned, or the panic that unwinds
LinearColorSpace_new(red, green, blue, white_point) ==
    Only({ IF ~forward_transform.some THEN [panic |-> PanicUnwrap]
           ELSE Only({ IF ~inv_transform.some THEN [panic |-> PanicExpect]
                       ELSE [panic |-> NoPanic,
                             value |-> [red_primary   |-> red,
                                        green_primary |-> green,
                                        blue_primary  |-> blue,
                                        white_point   |-> white_point,
                                        xyz_transform |-> forward_transform.v,
                                        inv_transform |-> inv_transform.v]]
                       : inv_transform \in {inverse(forward_transform.v)} })
           : forward_transform \in {build_transform(red, green, blue, white_point)} })

\* new_with_transforms with the two matrices stored in each other's field
new_with_transforms_swapped(red, green, blue, white_point, xyz_transform, inv_transform) ==
    [red_primary   |-> red,
     green_primary |-> green,
     blue_primary  |-> blue,
     white_point   |-> white_point,
     xyz_transform |-> inv_transform,
     inv_transform |-> xyz_transform]

new_with_transforms(red, green, blue, white_point, xyz_transform, inv_transform) ==
    [red_primary   |-> red,
     green_primary |-> green,
     blue_primary  |-> blue,
     white_point   |-> white_point,
     xyz_transform |-> xyz_transform,
     inv_transform |-> inv_transform]

(***************************************************************************)
(* encoding: LinearEncoding, a gamma curve, EncodedColor<Color, E>         *)
(***************************************************************************)
LinearEncoding == "LinearEncoding"
GammaEncoding == "GammaEncoding(2.0)"
Encodings == {LinearEncoding, GammaEncoding}

\* ColorEncoding::encode_channel: linear -> encoded, v^(1/gamma) for the gamma curve
Encoding_encode_channel(encoding, val) ==
    Only({ IF encoding = LinearEncoding THEN v ELSE FSqrt(v) : v \in {val} })

\* ColorEncoding::decode_channel: encoded -> linear, v^gamma for the gamma curve
Encoding_decode_channel(encoding, val) ==
    Only({ IF encoding = LinearEncoding THEN v ELSE FMul(v, v) : v \in {val} })

\* A color wrapped with its encoding tag. via records which operation attached
\* the tag (it is not a field of the program's value).
EncodedColor_new(color, encoding) ==
    [color |-> color, encoding |-> encoding, via |-> "EncodedColor::new"]

with_encoding(color, encoding) ==
    [color |-> color, encoding |-> encoding, via |-> "with_encoding"]

\* EncodedColor::decode: every channel through the tag's decode curve, tagged Linear
decode(encoded_color) ==
    Only({ [color    |-> [i \in 1..3 |-> Encoding_decode_channel(c.encoding, c.color[i])],
            encoding |-> LinearEncoding,
            via      |-> "decode"]
           : c \in {encoded_color} })

\* Color::to_tuple of a LinearColor<Rgb<T>>
LinearColor_to_tuple(linear_color) == Rgb_to_tuple(linear_color.color)

(***************************************************************************)
(* EncodedColorSpace<T, E>                                                 *)
(***************************************************************************)
EncodedColorSpace_new(red_primary, green_primary, blue_primary, white_point, encoding) ==
    Only({ IF linear.panic # NoPanic THEN [panic |-> linear.panic]
           ELSE [panic |-> NoPanic,
                 value |-> [linear_space |-> linear.value, encoding |-> encoding]]
           : linear \in {LinearColorSpace_new(red_primary, green_primary, blue_primary,
                                              white_point)} })

linear_color_space(self) == self.linear_space
encoding(self) == self.encoding

\* decode_channel calling the encoding's encode_channel
decode_channel_encodes(self, val) == Encoding_encode_channel(self.encoding, val)

\* impl ChannelEncoder / ChannelDecoder for EncodedColorSpace
encode_channel(self, val) == Encoding_encode_channel(self.encoding, val)
decode_channel(self, val) == Encoding_decode_channel(self.encoding, val)

\* impl ColorSpace<T> for LinearColorSpace<T>
Linear_red_primary(self) == self.red_primary
Linear_green_primary(self) == self.green_primary
Linear_blue_primary(self) == self.blue_primary
Linear_white_point(self) == self.white_point
Linear_get_xyz_transform(self) == self.xyz_transform
Linear_get_inverse_xyz_transform(self) == self.inv_transform
Linear_apply_transform(self, vec) ==
    transform_vector(Linear_get_xyz_transform(self), vec)

\* LinearColorSpace::decode_color putting the channels through a gamma curve
Linear_decode_color_curved(self, color) == decode(with_encoding(color, GammaEncoding))

\* impl ColorSpaceEncoding for LinearColorSpace<T>
Linear_decode_color(self, color) == with_encoding(color, LinearEncoding)

\* get_inverse_xyz_transform of an EncodedColorSpace answering with the forward matrix
Encoded_get_inverse_returns_forward(self) == Linear_get_xyz_transform(self.linear_space)

\* impl ColorSpace<T> for EncodedColorSpace<T, E>
Encoded_red_primary(self) == Linear_red_primary(self.linear_space)
Encoded_green_primary(self) == Linear_green_primary(self.linear_space)
Encoded_blue_primary(self) == Linear_blue_primary(self.linear_space)
Encoded_white_point(self) == Linear_white_point(self.linear_space)
Encoded_get_xyz_transform(self) == Linear_get_xyz_transform(self.linear_space)
Encoded_get_inverse_xyz_transform(self) ==
    Linear_get_inverse_xyz_transform(self.linear_space)
Encoded_apply_transform(self, vec) ==
    transform_vector(Encoded_get_xyz_transform(self), vec)

\* EncodedColorSpace::decode_color tagging the color and leaving out decode()
Encoded_decode_color_undecoded(self, color) == with_encoding(color, self.encoding)

\* impl ColorSpaceEncoding for EncodedColorSpace<T, E>
Encoded_decode_color(self, color) ==
    LET encoded_color == with_encoding(color, self.encoding)
    IN  decode(encoded_color)

\* convert_to_xyz handing the components to Xyz::from_channels as (z, y, x)
convert_to_xyz_reordered(self, transform) ==
    Only({ Xyz_from_channels(xyz[3], xyz[2], xyz[1])
           : xyz \in {transform_vector(transform, LinearColor_to_tuple(self))} })

\* impl ToXyz<T> for LinearColor<Rgb<T>>; transform is space.get_xyz_transform()
convert_to_xyz(self, transform) ==
    Only({ Xyz_from_channels(xyz[1], xyz[2], xyz[3])
           : xyz \in {transform_vector(transform, LinearColor_to_tuple(self))} })

\* impl ColorSpaceConversion<T, LinearColor<Rgb<T>>> for LinearColorSpace<T>
Linear_color_to_xyz(self, color) ==
    convert_to_xyz(color, Linear_get_xyz_transform(self))

\* color_to_xyz of an EncodedColorSpace without the decode() of line 267
Encoded_color_to_xyz_undecoded(self, color) ==
    convert_to_xyz(color, Encoded_get_xyz_transform(self))

\* color_to_xyz of an EncodedColor decoding with the space's curve, not the tag's
Encoded_color_to_xyz_by_space_curve(self, color) ==
    convert_to_xyz(decode(with_encoding(color.color, self.encoding)),
                   Encoded_get_xyz_transform(self))

\* impl ColorSpaceConversion<T, EncodedColor<Rgb<T>, EIn>> for EncodedColorSpace<T, E>
Encoded_color_to_xyz(self, color) ==
    convert_to_xyz(decode(color), Encoded_get_xyz_transform(self))

\* color_to_xyz of a bare Rgb taking it as linear, whatever the space's encoding
Rgb_color_to_xyz_as_linear(self, color) ==
    convert_to_xyz(decode(with_encoding(color, LinearEncoding)),
                   Encoded_get_xyz_transform(self))

\* impl ColorSpaceConversion<T, Rgb<T>> for EncodedColorSpace<T, E>
Rgb_color_to_xyz(self, color) ==
    convert_to_xyz(decode(with_encoding(color, self.encoding)),
                   Encoded_get_xyz_transform(self))

\* the way back with the forward matrix in place of the inverse
Linear_xyz_to_rgb_forward(self, xyz) ==
    transform_vector(Linear_get_xyz_transform(self), Xyz_to_tuple(xyz))

\* The way back, XYZ -> RGB, as a caller writes it with the API:
\* space.get_inverse_xyz_transform().transform_vector(xyz.to_tuple())
Linear_xyz_to_rgb(self, xyz) ==
    transform_vector(Linear_get_inverse_xyz_transform(self), Xyz_to_tuple(xyz))

\* ... and on an EncodedColorSpace, each channel then through encode_channel
Encoded_xyz_to_rgb(self, xyz) ==
    Only({ Rgb_from_channels(encode_channel(self, v[1]), encode_channel(self, v[2]),
                             encode_channel(self, v[3]))
           : v \in {transform_vector(Encoded_get_inverse_xyz_transform(self),
                                     Xyz_to_tuple(xyz))} })

(***************************************************************************)
(* The caller's inputs. Primaries and white points are written as the      *)
(* decimal literals of a call, RgbPrimary::new(0.6400, 0.3300): a pair of  *)
(* numerators over 10^4 for a primary, a triple over 10^5 for a white      *)
(* point, a numerator over 10^2 for a channel value.                       *)
(***************************************************************************)
NPrim == 5
NWhite == 2
NColor == 5
NVal == 4
NMatrix == 3
MaxCalls == 2

\* sRGB red, green, blue; the midpoint of sRGB green and blue (collinear with
\* them); a point off every line through two of the others; the Adobe RGB green
\* and the DCI-P3 red
PrimaryLits ==
    << <<6400, 3300>>, <<3000, 6000>>, <<1500, 600>>,
       <<2250, 3300>>, <<4700, 5000>>,
       <<2100, 7100>>, <<6800, 3200>>,
       <<6400, 0>>, <<0, 0>> >>

\* D65 (white_point::D65), equal energy, D50, half of equal energy; then
\* (0, 0, 0), and 0.33 times the direction of sRGB red plus 0.60 times the
\* direction of sRGB green, which has no blue in it
WhiteLits ==
    << <<95047, 100000, 108883>>, <<100000, 100000, 100000>>,
       <<96422, 100000, 82521>>, <<50000, 50000, 50000>>,
       <<0, 0, 0>>, <<94000, 93000, 13000>> >>

ColorLits ==
    << <<0, 0, 0>>, <<100, 100, 100>>, <<50, 50, 50>>, <<100, 0, 0>>,
       <<25, 50, 75>>, <<25, 25, 25>>, <<0, 100, 0>>, <<0, 0, 100>> >>

ValLits == <<0, 100, 50, 25, 75, 200>>

PrimIdx == 1..NPrim
\* the chromaticities of the list with y = 0
ZeroYIdx == {i \in 1..Len(PrimaryLits) : PrimaryLits[i][2] = 0}
WhiteIdx == 1..NWhite
\* the white points of the list that are (0, 0, 0), or a mix of sRGB red and green
ZeroWhiteIdx == {i \in 1..Len(WhiteLits) : WhiteLits[i] = <<0, 0, 0>>}
RedGreenWhiteIdx == {i \in 1..Len(WhiteLits) : WhiteLits[i] = <<94000, 93000, 13000>>}
ColorIdx == 1..NColor
\* the colors of the list with one channel 1 and two channels 0: pure primaries
PureIdx == {i \in 1..Len(ColorLits) :
                ColorLits[i] \in {<<100, 0, 0>>, <<0, 100, 0>>, <<0, 0, 100>>}}
ValIdx == 1..NVal
MatrixIdx == 1..NMatrix

Primary(i) == RgbPrimary_new(Dec(PrimaryLits[i][1], 4), Dec(PrimaryLits[i][2], 4))
White(i) == Xyz_from_channels(Dec(WhiteLits[i][1], 5), Dec(WhiteLits[i][2], 5),
                              Dec(WhiteLits[i][3], 5))
RgbOf(i) == Rgb_from_channels(Dec(ColorLits[i][1], 2), Dec(ColorLits[i][2], 2),
                              Dec(ColorLits[i][3], 2))
Val(i) == Dec(ValLits[i], 2)

Diag(d) == Matrix3_new(<<d, Zero, Zero, Zero, d, Zero, Zero, Zero, d>>)

\* matrices a caller hands to new_with_transforms: I, 2 I, I / 2, 4 I
MatrixOf(i) ==
    CASE i = 1 -> Identity3
      [] i = 2 -> Diag(FromInt(2))
      [] i = 3 -> Diag(Dec(5, 1))
      [] OTHER -> Diag(FromInt(4))

NoSpace == [kind |-> "none"]
NotMade == [ctor |-> "none"]

VARIABLES
    space,   \* the color space the caller holds: kind "none", "linear" or "encoded"
    made,    \* the constructor call: its name and the literals it was given
    panic,   \* NoPanic, or the panic that ended the constructor call
    calls    \* the calls made on the space since: <<[op, arg, ret], ...>>

vars == <<space, made, panic, calls>>

Init ==
    /\ space = NoSpace
    /\ made = NotMade
    /\ panic = NoPanic
    /\ calls = <<>>

\* let s = LinearColorSpace::new(red, green, blue, white_point);
CallLinearNew(r, g, b, w) ==
    /\ made.ctor = "none"
    /\ \E res \in {LinearColorSpace_new(Primary(r), Primary(g), Primary(b), White(w))} :
           /\ panic' = res.panic
           /\ space' = IF res.panic = NoPanic
                       THEN [kind |-> "linear", s |-> res.value]
                       ELSE NoSpace
    /\ made' = [ctor |-> "LinearColorSpace::new", red |-> r, green |-> g, blue |-> b,
                white |-> w]
    /\ calls' = <<>>

\* let s = LinearColorSpace::new_with_transforms(red, green, blue, white_point, m, mi);
CallNewWithTransforms(r, g, b, w, m, mi) ==
    /\ made.ctor = "none"
    /\ panic' = NoPanic
    /\ space' = [kind |-> "linear",
                 s |-> new_with_transforms(Primary(r), Primary(g), Primary(b), White(w),
                                           MatrixOf(m), MatrixOf(mi))]
    /\ made' = [ctor |-> "LinearColorSpace::new_with_transforms", red |-> r,
                green |-> g, blue |-> b, white |-> w, xyz |-> m, inv |-> mi]
    /\ calls' = <<>>

\* let s = EncodedColorSpace::new(red, green, blue, white_point, encoding);
CallEncodedNew(r, g, b, w, enc) ==
    /\ made.ctor = "none"
    /\ \E res \in {EncodedColorSpace_new(Primary(r), Primary(g), Primary(b), White(w),
                                          enc)} :
           /\ panic' = res.panic
           /\ space' = IF res.panic = NoPanic
                       THEN [kind |-> "encoded", s |-> res.value]
                       ELSE NoSpace
    /\ made' = [ctor |-> "EncodedColorSpace::new", red |-> r, green |-> g, blue |-> b,
                white |-> w, encoding |-> enc]
    /\ calls' = <<>>

\* the caller lets go of the space (or of the panic) and starts over
Drop ==
    /\ made.ctor # "none"
    /\ space' = NoSpace
    /\ made' = NotMade
    /\ panic' = NoPanic
    /\ calls' = <<>>

\* a method that takes the space by value (self, not &self): the caller's
\* space is moved into the call and gone after it
Call_taking_self(op, arg, ret) ==
    /\ calls' = Append(calls, [op |-> op, arg |-> arg, ret |-> ret])
    /\ space' = NoSpace
    /\ UNCHANGED <<made, panic>>

Call(op, arg, ret) ==
    /\ calls' = Append(calls, [op |-> op, arg |-> arg, ret |-> ret])
    /\ UNCHANGED <<space, made, panic>>

Fresh == calls = <<>>

\* the ColorSpace<T> accessors of a LinearColorSpace
LinearAccessor ==
    /\ space.kind = "linear"
    /\ Fresh
    /\ \/ Call("red_primary", <<>>, Linear_red_primary(space.s))
       \/ Call("green_primary", <<>>, Linear_green_primary(space.s))
       \/ Call("blue_primary", <<>>, Linear_blue_primary(space.s))
       \/ Call("white_point", <<>>, Linear_white_point(space.s))
       \/ Call("get_xyz_transform", <<>>, Linear_get_xyz_transform(space.s))
       \/ Call("get_inverse_xyz_transform", <<>>,
               Linear_get_inverse_xyz_transform(space.s))

LinearApplyTransform(c) ==
    /\ space.kind = "linear"
    /\ Fresh
    /\ Call("apply_transform", RgbOf(c), Linear_apply_transform(space.s, RgbOf(c)))

\* the ColorSpace<T> accessors of an EncodedColorSpace, and its own two
EncodedAccessor ==
    /\ space.kind = "encoded"
    /\ Fresh
    /\ \/ Call("red_primary", <<>>, Encoded_red_primary(space.s))
       \/ Call("green_primary", <<>>, Encoded_green_primary(space.s))
       \/ Call("blue_primary", <<>>, Encoded_blue_primary(space.s))
       \/ Call("white_point", <<>>, Encoded_white_point(space.s))
       \/ Call("get_xyz_transform", <<>>, Encoded_get_xyz_transform(space.s))
       \/ Call("get_inverse_xyz_transform", <<>>,
               Encoded_get_inverse_xyz_transform(space.s))
       \/ Call("linear_color_space", <<>>, linear_color_space(space.s))
       \/ Call("encoding", <<>>, encoding(space.s))

EncodedApplyTransform(c) ==
    /\ space.kind = "encoded"
    /\ Fresh
    /\ Call("apply_transform", RgbOf(c), Encoded_apply_transform(space.s, RgbOf(c)))

\* s.encode_channel(v): v a literal, or what the call before returned
EncodeChannel(v) ==
    /\ space.kind = "encoded"
    /\ Len(calls) < MaxCalls
    /\ \E arg \in {IF Fresh THEN Val(v) ELSE calls[Len(calls)].ret} :
           /\ ~Fresh => (v = 1 /\ calls[Len(calls)].op = "decode_channel")
           /\ Call("encode_channel", arg, encode_channel(space.s, arg))

DecodeChannel(v) ==
    /\ space.kind = "encoded"
    /\ Len(calls) < MaxCalls
    /\ \E arg \in {IF Fresh THEN Val(v) ELSE calls[Len(calls)].ret} :
           /\ ~Fresh => (v = 1 /\ calls[Len(calls)].op = "encode_channel")
           /\ Call("decode_channel", arg, decode_channel(space.s, arg))

\* s.decode_color(rgb)
LinearDecodeColor(c) ==
    /\ space.kind = "linear"
    /\ Fresh
    /\ Call("decode_color", RgbOf(c), Linear_decode_color(space.s, RgbOf(c)))

EncodedDecodeColor(c) ==
    /\ space.kind = "encoded"
    /\ Fresh
    /\ Call("decode_color", RgbOf(c), Encoded_decode_color(space.s, RgbOf(c)))

\* s.color_to_xyz(&EncodedColor::new(rgb, LinearEncoding::new())) on a linear space
LinearColorToXyz(c) ==
    /\ space.kind = "linear"
    /\ Fresh
    /\ \E color \in {EncodedColor_new(RgbOf(c), LinearEncoding)} :
           Call("color_to_xyz", color, Linear_color_to_xyz(space.s, color))

\* s.color_to_xyz(&EncodedColor::new(rgb, e)) on an encoded space, any tag e
EncodedColorToXyz(c, e) ==
    /\ space.kind = "encoded"
    /\ Fresh
    /\ \E color \in {EncodedColor_new(RgbOf(c), e)} :
           Call("color_to_xyz", color, Encoded_color_to_xyz(space.s, color))

\* s.color_to_xyz(&rgb) on an encoded space
RgbColorToXyz(c) ==
    /\ space.kind = "encoded"
    /\ Fresh
    /\ Call("color_to_xyz(&Rgb)", RgbOf(c), Rgb_color_to_xyz(space.s, RgbOf(c)))

\* s.color_to_xyz(&d) with d the LinearColor the call before, decode_color, returned
DecodedColorToXyz ==
    /\ space.kind # "none"
    /\ ~Fresh
    /\ Len(calls) < MaxCalls
    /\ calls[Len(calls)].op = "decode_color"
    /\ \E color \in {calls[Len(calls)].ret} :
           Call("color_to_xyz", color,
                IF space.kind = "linear" THEN Linear_color_to_xyz(space.s, color)
                ELSE Encoded_color_to_xyz(space.s, color))

\* the XYZ value the call before returned, converted back to RGB
XyzToRgb ==
    /\ space.kind # "none"
    /\ ~Fresh
    /\ Len(calls) < MaxCalls
    /\ \/ space.kind = "linear" /\ calls[Len(calls)].op = "apply_transform"
       \/ space.kind = "encoded" /\ calls[Len(calls)].op = "color_to_xyz(&Rgb)"
    /\ \E xyz \in {calls[Len(calls)].ret} :
           Call("xyz_to_rgb", xyz,
                IF space.kind = "linear" THEN Linear_xyz_to_rgb(space.s, xyz)
                ELSE Encoded_xyz_to_rgb(space.s, xyz))

\* the primaries new_with_transforms is tried with: consecutive triples of the list
TransformPrims == {t \in PrimIdx \X PrimIdx \X PrimIdx : t[2] = t[1] + 1 /\ t[3] = t[2] + 1}

Next ==
    \/ \E r \in PrimIdx, g \in PrimIdx, b \in PrimIdx, w \in WhiteIdx :
          CallLinearNew(r, g, b, w)
    \/ \E z \in ZeroYIdx, p \in 1..3, w \in WhiteIdx :
          \/ CallLinearNew(z, 2, 3, w)
          \/ CallLinearNew(1, z, p, w)
          \/ CallLinearNew(p, 2, z, w)
    \/ \E r \in 1..3, g \in 1..3, b \in 1..3, w \in ZeroWhiteIdx \cup RedGreenWhiteIdx :
          CallLinearNew(r, g, b, w)
    \/ \E t \in TransformPrims, w \in WhiteIdx, m \in MatrixIdx, mi \in MatrixIdx :
          CallNewWithTransforms(t[1], t[2], t[3], w, m, mi)
    \/ \E r \in PrimIdx, g \in PrimIdx, b \in PrimIdx, w \in WhiteIdx, e \in Encodings :
          CallEncodedNew(r, g, b, w, e)
    \/ Drop
    \/ LinearAccessor
    \/ EncodedAccessor
    \/ \E c \in ColorIdx : LinearApplyTransform(c)
    \/ \E c \in ColorIdx : EncodedApplyTransform(c)
    \/ \E v \in ValIdx : EncodeChannel(v)
    \/ \E v \in ValIdx : DecodeChannel(v)
    \/ \E c \in ColorIdx : LinearDecodeColor(c)
    \/ \E c \in ColorIdx : EncodedDecodeColor(c)
    \/ \E c \in ColorIdx : LinearColorToXyz(c)
    \/ \E c \in PureIdx : LinearColorToXyz(c) \/ EncodedColorToXyz(c, LinearEncoding)
    \/ \E c \in ColorIdx, e \in Encodings : EncodedColorToXyz(c, e)
    \/ \E c \in ColorIdx : RgbColorToXyz(c)
    \/ DecodedColorToXyz
    \/ XyzToRgb

Spec == Init /\ [][Next]_vars
(***************************************************************************)
(* What the properties below are stated with.                              *)
(***************************************************************************)
\* |a - b| <= tol, false when either is NaN
Near(a, b, tol) == FLe(FAbs(FSub(a, b)), tol)

\* every entry of the 3x3 matrices a and b within tol
MatNear(a0, b0, tol) == Only({ \A k \in 1..9 : Near(a[k], b[k], tol) : a \in {a0}, b \in {b0} })

\* every channel of the triples a and b within tol
VecNear(a0, b0, tol) == Only({ \A k \in 1..3 : Near(a[k], b[k], tol) : a \in {a0}, b \in {b0} })

Tol1e4 == Dec(1, 4)
Tol1e5 == Dec(1, 5)

\* The chromaticities p, q, r, as the literals the caller wrote, lie on one line
\* (exactly, in integers): the primaries are linearly dependent.
CollinearLits(p, q, r) ==
    (q[1] - p[1]) * (r[2] - p[2]) = (q[2] - p[2]) * (r[1] - p[1])

\* the constructor call that made the space derived the matrices from primaries
Derived == made.ctor \in {"LinearColorSpace::new", "EncodedColorSpace::new"}

\* ... and its three primaries are linearly dependent
Collinear ==
    CollinearLits(PrimaryLits[made.red], PrimaryLits[made.green], PrimaryLits[made.blue])

\* ... or one of them has y = 0, and no direction vector (x/y, 1, (1-x-y)/y)
ZeroY == {made.red, made.green, made.blue} \cap ZeroYIdx # {}

\* the LinearColorSpace the caller holds, directly or inside an EncodedColorSpace
TheLinearSpace == IF space.kind = "linear" THEN space.s ELSE linear_color_space(space.s)

\* the last call made on the space
LastCall == calls[Len(calls)]

(***************************************************************************)
(* Properties                                                              *)
(***************************************************************************)
\* the product get_xyz_transform() x get_inverse_xyz_transform() of the linear space
Product ==
    MatMul(Linear_get_xyz_transform(TheLinearSpace),
           Linear_get_inverse_xyz_transform(TheLinearSpace))

C2_CollinearNeverConstructs ==
    (Derived /\ Collinear) => space = NoSpace

\* C3 as claimed: construction never ends in a panic; the failure is a value the
\* caller inspects.
C3_NeverPanics ==
    Derived => panic = NoPanic

\* C3, amended: a failed inversion ends the constructor call in a panic and in
\* nothing else: unwrap() panics exactly when the primary matrix has no inverse,
\* expect() exactly when the forward transform has none, and the caller holds a
\* color space exactly when neither happened.
C3_FailureIsPanic ==
    (Derived /\ Fresh) =>
        \A forward_transform \in {build_transform(Primary(made.red), Primary(made.green),
                                                  Primary(made.blue), White(made.white))} :
            /\ (panic = PanicUnwrap) <=> ~forward_transform.some
            /\ (panic = PanicExpect) <=>
                   (forward_transform.some /\ ~inverse(forward_transform.v).some)
            /\ (panic = NoPanic) <=> (space # NoSpace)

\* C3's case: a constructor call whose inversion failed has ended in a panic
C3_Witness ==
    /\ Derived
    /\ panic = PanicUnwrap
    /\ space = NoSpace

XyzCalls == {i \in 1..Len(calls) : calls[i].op = "color_to_xyz"}

\* ... whose color is tagged Linear and has three equal channels k
GreyCalls ==
    {i \in XyzCalls : /\ calls[i].arg.encoding = LinearEncoding
                      /\ calls[i].arg.color[2] = calls[i].arg.color[1]
                      /\ calls[i].arg.color[3] = calls[i].arg.color[1]}

\* the call returned k times the white point of the space, within 1e-5
ReturnsScaledWhite(i) ==
    \A k \in {calls[i].arg.color[1]}, white \in {Linear_white_point(TheLinearSpace)} :
        VecNear(calls[i].ret, <<FMul(k, white[1]), FMul(k, white[2]), FMul(k, white[3])>>,
                Tol1e5)

SrgbD65 == made.red = 1 /\ made.green = 2 /\ made.blue = 3 /\ made.white = 1

HalfGreyXyz == <<Dec(475235, 6), Dec(5, 1), Dec(544415, 6)>>

SrgbReference ==
    Matrix3_new(<< Dec(4124564, 7), Dec(3575761, 7), Dec(1804375, 7),
                   Dec(2126729, 7), Dec(7151522, 7), Dec(721750, 7),
                   Dec(193339, 7),  Dec(1191920, 7), Dec(9503041, 7) >>)

\* C6: for the sRGB primaries and the D65 white point the constructor returns
\* a space, and every entry of the matrix get_xyz_transform() returns is
\* within 1e-4 of the reference matrix.
C6_SrgbForwardMatrix ==
    (Derived /\ SrgbD65) =>
        /\ space.kind # "none"
        /\ MatNear(Linear_get_xyz_transform(TheLinearSpace), SrgbReference, Tol1e4)
        /\ \A i \in 1..Len(calls) :
               calls[i].op = "get_xyz_transform" =>
                   MatNear(calls[i].ret, SrgbReference, Tol1e4)

\* get_xyz_transform() was called on the sRGB / D65 space
C6_Witness ==
    /\ Derived /\ SrgbD65
    /\ ~Fresh
    /\ LastCall.op = "get_xyz_transform"

\* C7 as stated: a value tagged Linear that is XYZ-transformed was always
\* produced by applying a decode curve to the channels.
C7_LinearOnlyFromDecode ==
    \A i \in XyzCalls :
        calls[i].arg.encoding = LinearEncoding => calls[i].arg.via = "decode"

\* C7 amended: the tag Linear is attached by decode (EncodedColorSpace::
\* decode_color, after the channels went through the curve of the space) and
\* also, with the channels untouched, by with_encoding (LinearColorSpace::
\* decode_color) and by EncodedColor::new; color_to_xyz transforms a value
\* tagged Linear whichever of the three attached the tag.
C7_LinearTagOrigins ==
    \A i \in 1..Len(calls) :
        /\ (calls[i].op = "decode_color" /\ space.kind = "linear") =>
               calls[i].ret = [color |-> calls[i].arg, encoding |-> LinearEncoding,
                               via |-> "with_encoding"]
        /\ (calls[i].op = "decode_color" /\ space.kind = "encoded") =>
               calls[i].ret =
                   [color    |-> [j \in 1..3 |->
                                     Encoding_decode_channel(encoding(space.s),
                                                             calls[i].arg[j])],
                    encoding |-> LinearEncoding,
                    via      |-> "decode"]
        /\ (i \in XyzCalls /\ i > 1) =>
               /\ calls[i - 1].op = "decode_color"
               /\ calls[i].arg = calls[i - 1].ret
        /\ (i \in XyzCalls /\ calls[i].arg.encoding = LinearEncoding) =>
               /\ calls[i].arg.via \in {"decode", "with_encoding", "EncodedColor::new"}
               /\ (space.kind = "linear") => calls[i].arg.via # "decode"
               /\ calls[i].ret = Linear_apply_transform(TheLinearSpace, calls[i].arg.color)

\* a linear space tagged a color Linear without a curve and converted it
C7_Witness ==
    /\ space.kind = "linear"
    /\ Len(calls) = 2
    /\ calls[1].op = "decode_color"
    /\ calls[2].op = "color_to_xyz"
    /\ calls[2].arg.via = "with_encoding"
    /\ calls[2].arg.color = RgbOf(5)

\* the channels of a tagged color, decoded to linear
DecodedChannels(color) ==
    [j \in 1..3 |-> Encoding_decode_channel(color.encoding, color.color[j])]

\* C8: color_to_xyz of a color tagged Linear is the forward matrix times its
\* channels, no curve applied; of a color tagged Encoded it is the forward
\* matrix times the decoded channels.
C8_ColorToXyzDecodesThenTransforms ==
    \A i \in XyzCalls :
        /\ calls[i].arg.encoding = LinearEncoding =>
               calls[i].ret = transform_vector(Linear_get_xyz_transform(TheLinearSpace),
                                               calls[i].arg.color)
        /\ calls[i].arg.encoding # LinearEncoding =>
               calls[i].ret = transform_vector(Linear_get_xyz_transform(TheLinearSpace),
                                               DecodedChannels(calls[i].arg))

\* a gamma-encoded color whose decoding changes it was converted
C8_Witness ==
    /\ space.kind = "encoded"
    /\ XyzCalls # {}
    /\ LastCall.op = "color_to_xyz"
    /\ LastCall.arg.encoding = GammaEncoding
    /\ LastCall.arg.color = RgbOf(5)
    /\ DecodedChannels(LastCall.arg) # LastCall.arg.color

(***************************************************************************)
(* EncodedColorSpace as a wrapper                                          *)
(***************************************************************************)
\* what the query op returns on the linear space inside s
OnLinearSpace(s, op, arg) ==
    CASE op = "red_primary" -> Linear_red_primary(linear_color_space(s))
      [] op = "green_primary" -> Linear_green_primary(linear_color_space(s))
      [] op = "blue_primary" -> Linear_blue_primary(linear_color_space(s))
      [] op = "white_point" -> Linear_white_point(linear_color_space(s))
      [] op = "get_xyz_transform" -> Linear_get_xyz_transform(linear_color_space(s))
      [] op = "get_inverse_xyz_transform" ->
             Linear_get_inverse_xyz_transform(linear_color_space(s))
      [] op = "apply_transform" -> Linear_apply_transform(linear_color_space(s), arg)

Queries ==
    {"red_primary", "green_primary", "blue_primary", "white_point",
     "get_xyz_transform", "get_inverse_xyz_transform", "apply_transform"}

\* C9: every query on an EncodedColorSpace s returns what the same query
\* returns on s.linear_color_space(); encode_channel and decode_channel
\* return what s.encoding() returns for the same scalar.
C9_EncodedSpaceDelegates ==
    space.kind = "encoded" =>
        \A i \in 1..Len(calls) :
            /\ calls[i].op \in Queries =>
                   calls[i].ret = OnLinearSpace(space.s, calls[i].op, calls[i].arg)
            /\ calls[i].op = "encode_channel" =>
                   calls[i].ret = Encoding_encode_channel(encoding(space.s), calls[i].arg)
            /\ calls[i].op = "decode_channel" =>
                   calls[i].ret = Encoding_decode_channel(encoding(space.s), calls[i].arg)

\* the inverse matrix was asked of an EncodedColorSpace whose two matrices differ
C9_Witness ==
    /\ space.kind = "encoded"
    /\ ~Fresh
    /\ LastCall.op = "get_inverse_xyz_transform"
    /\ LastCall.ret # Linear_get_xyz_transform(linear_color_space(space.s))

RoundTrips == {i \in 2..Len(calls) : calls[i].op = "xyz_to_rgb"}

\* the RGB channels came back within 1e-4 of the ones that went in
CameBack(i) ==
    /\ calls[i].arg = calls[i - 1].ret
    /\ VecNear(calls[i].ret, calls[i - 1].arg, Tol1e4)

LinearChannels(j) ==
    IF space.kind = "linear" THEN calls[j].arg
    ELSE [k \in 1..3 |-> Encoding_decode_channel(encoding(space.s), calls[j].arg[k])]

AllFinite(m) == \A k \in 1..9 : IsFinite(m[k])

\* C12: LinearColorSpace::new (and EncodedColorSpace::new) either fails or
\* returns a color space whose two matrices have finite entries only, also
\* for a primary with y = 0.
C12_NoNonFiniteMatrices ==
    (Derived /\ space.kind # "none") =>
        /\ AllFinite(Linear_get_xyz_transform(TheLinearSpace))
        /\ AllFinite(Linear_get_inverse_xyz_transform(TheLinearSpace))


Scalar_lerp(self, right, pos) ==
    Only({ FAdd(FMul(a, FSub(One, p)), FMul(b, p))
           : a \in {self}, b \in {right}, p \in {pos} })

\* Angle::period() and half of it, in degrees
Period == FromInt(360)
HalfTurn == FromInt(180)

\* the signed arc from angle a to angle b, in [-180, 180)
ShortestArc(a, b) ==
    FSub(FMod(FAdd(FMod(FSub(b, a), Period), FAdd(Period, HalfTurn)), Period), HalfTurn)

\* the Lerp of an angle: along the shorter arc; the result is not normalized
Angle_lerp(self, right, pos) ==
    Only({ FAdd(a, FMul(ShortestArc(a, b), p))
           : a \in {self}, b \in {right}, p \in {pos} })

\* Angle::normalize: into [0, period)
Angle_normalize(self) ==
    Only({ IF FLt(r, Zero) THEN FAdd(r, Period) ELSE r : r \in {FMod(self, Period)} })

Angle_is_normalized(self) == FLe(Zero, self) /\ FLt(self, Period)

\* Angle::invert: the opposite direction, half a period on
Angle_invert(self) == Angle_normalize(FAdd(self, HalfTurn))

FreeChannel(value) == [channel |-> "FreeChannel", v |-> value]
AngularChannel(value) == [channel |-> "AngularChannel", v |-> value]

FreeChannel_new(value) == FreeChannel(value)
FreeChannel_from_scalar(value) == FreeChannel(value)
FreeChannel_value(self) == self.v
FreeChannel_scalar(self) == self.v

\* T::min_value() and T::max_value() of f32: -(2^24 - 1) * 2^104 and its negation
T_min_value == [c |-> "num", m |-> 0 - (TwoP24 - 1), e |-> MaxExp]
T_max_value == [c |-> "num", m |-> TwoP24 - 1, e |-> MaxExp]

\* ColorChannel::min_bound and max_bound of FreeChannel<T>
FreeChannel_min_bound == T_min_value
FreeChannel_max_bound == T_min_value

\* FreeChannel::lerp with self and right exchanged
FreeChannel_lerp_exchanged(self, right, pos) ==
    FreeChannel_new(Scalar_lerp(right.v, self.v, pos))

\* impl Lerp for FreeChannel<T>
FreeChannel_lerp(self, right, pos) == FreeChannel_new(Scalar_lerp(self.v, right.v, pos))

AngularChannel_new(val) == AngularChannel(val)

\* AngularChannel::lerp interpolating the two numbers, not the two angles
AngularChannel_lerp_flat(self, right, pos) ==
    AngularChannel(Scalar_lerp(self.v, right.v, pos))

\* impl Lerp for AngularChannel<T>
AngularChannel_lerp(self, right, pos) == AngularChannel(Angle_lerp(self.v, right.v, pos))

\* AngularChannel::invert without the half turn
AngularChannel_invert_unrotated(self) == AngularChannel(Angle_normalize(self.v))

\* impl color::Invert for AngularChannel<T>
AngularChannel_invert(self) == AngularChannel(Angle_invert(self.v))

\* AngularChannel::normalize reducing into [-180, 180) instead of [0, 360)
AngularChannel_normalize_signed(self) ==
    AngularChannel(FSub(Angle_normalize(FAdd(self.v, HalfTurn)), HalfTurn))

\* impl color::Bounded for AngularChannel<T>
AngularChannel_normalize(self) == AngularChannel(Angle_normalize(self.v))
AngularChannel_is_normalized(self) == Angle_is_normalized(self.v)

(***************************************************************************)
(* Format casts. ChannelFormatCast::cast converts a scalar to another      *)
(* scalar format: rounded to the nearest value of the target format and    *)
(* clamped to its bounds. The formats here are f32 (a scalar record) and   *)
(* u8 (an integer).                                                        *)
(***************************************************************************)
U8Max == 255
Formats == {"f32", "u8"}

\* f32::round of a finite scalar: the nearest integer, halves away from zero;
\* a scalar of 2^23 or more in magnitude is an integer beyond every bound here
\* and is returned as 2^23 with its sign
Round(a) ==
    IF a.e >= 0 THEN Sign(a.m) * (IF a.m = 0 THEN 0 ELSE TwoP23)
    ELSE IF 0 - a.e > 25 THEN 0
    ELSE Only({ Sign(a.m) * (IF 2 * (AbsInt(a.m) % p) >= p THEN (AbsInt(a.m) \div p) + 1
                             ELSE AbsInt(a.m) \div p)
                : p \in {Pow2(0 - a.e)} })

ClampInt(n, lo, hi) == IF n < lo THEN lo ELSE IF n > hi THEN hi ELSE n

\* <f32 as ChannelFormatCast<To>>::cast
ChannelFormatCast_cast(self, To) ==
    IF To = "f32" THEN self
    ELSE IF IsNaN(self) THEN 0
    ELSE IF IsInf(self) THEN (IF self.m > 0 THEN U8Max ELSE 0)
    ELSE ClampInt(Round(self), 0, U8Max)

\* To::new for a channel type To = [channel, format]
To_new(To, value) == [channel |-> To.channel, v |-> value]

\* scalar_cast rounding without the clamp
FreeChannel_scalar_cast_unclamped(self, To) ==
    IF To = "f32" THEN self.v ELSE Round(self.v)

\* impl ChannelCast for FreeChannel<T>
FreeChannel_channel_cast(self, To) == To_new(To, ChannelFormatCast_cast(self.v, To.format))
FreeChannel_scalar_cast(self, To) == ChannelFormatCast_cast(self.v, To)

(***************************************************************************)
(* Colors. A color is a struct of channels: Lab of three free channels     *)
(* (L, a, b), Hwb of an angular hue and two bounded channels (whiteness,   *)
(* blackness). to_tuple gives the channels' scalars in declaration order,  *)
(* from_tuple builds the color from such a tuple.                          *)
(***************************************************************************)
BoundedChannel(value) == [channel |-> "BoundedChannel", v |-> value]

Lab_from_channels(L, a, b) ==
    [L |-> FreeChannel_new(L), a |-> FreeChannel_new(a), b |-> FreeChannel_new(b)]

\* Lab::to_tuple giving (a, L, b)
Lab_to_tuple_reordered(self) == <<self.a.v, self.L.v, self.b.v>>

\* impl Color for Lab, impl FromTuple for Lab
Lab_to_tuple(self) == <<self.L.v, self.a.v, self.b.v>>
Lab_from_tuple(values) == Lab_from_channels(values[1], values[2], values[3])

\* impl_channel_clamp!(FreeChannel, T): fn clamp(&self, min: T, max: T) -> Self
FreeChannel_clamp(self, min, max) ==
    IF FLt(max, self.v) THEN FreeChannel(max)
    ELSE IF FLt(self.v, min) THEN FreeChannel(min)
    ELSE self

\* impl HomogeneousColor for Lab
Lab_broadcast(value) == Lab_from_channels(value, value, value)

\* Lab::clamp clamping the first channel only
Lab_clamp_first_only(self, min, max) == [self EXCEPT !.L = FreeChannel_clamp(@, min, max)]

Lab_clamp(self, min, max) ==
    [L |-> FreeChannel_clamp(self.L, min, max),
     a |-> FreeChannel_clamp(self.a, min, max),
     b |-> FreeChannel_clamp(self.b, min, max)]

Hwb_from_channels(hue, whiteness, blackness) ==
    [hue |-> AngularChannel_new(hue), whiteness |-> BoundedChannel(whiteness),
     blackness |-> BoundedChannel(blackness)]

\* impl Color for Hwb, impl FromTuple for Hwb
Hwb_to_tuple(self) == <<self.hue.v, self.whiteness.v, self.blackness.v>>
Hwb_from_tuple(values) == Hwb_from_channels(values[1], values[2], values[3])

(***************************************************************************)
(* The channel values, angles and positions a caller passes. Channel       *)
(* values are numerators over 10^2, angles whole degrees, positions        *)
(* numerators over 10^2.                                                   *)
(***************************************************************************)
NChan == 4
NAngle == 5
NPos == 5

ChanLits == <<0, 2550, 0 - 5000, 30050, 100, 33, 12849>>
AngleLits == <<350, 10, 0 - 90, 450, 180, 270, 0>>
PosLits == <<0, 100, 50, 150, 0 - 50, 25, 200>>

ChanIdx == 1..NChan
AngleIdx == 1..NAngle
PosIdx == 1..NPos

Chan(i) == Dec(ChanLits[i], 2)
Angle(i) == FromInt(AngleLits[i])
Pos(i) == Dec(PosLits[i], 2)

\* a.lerp(&b, pos) on two free channels
FreeLerp(a, b, p) ==
    /\ Fresh
    /\ made.ctor = "none"
    /\ Call("FreeChannel::lerp", <<FreeChannel_new(Chan(a)), FreeChannel_new(Chan(b)), Pos(p)>>,
            FreeChannel_lerp(FreeChannel_new(Chan(a)), FreeChannel_new(Chan(b)), Pos(p)))

\* a.lerp(&b, pos) on two angular channels
AngularLerp(a, b, p) ==
    /\ Fresh
    /\ made.ctor = "none"
    /\ Call("AngularChannel::lerp",
            <<AngularChannel_new(Angle(a)), AngularChannel_new(Angle(b)), Pos(p)>>,
            AngularChannel_lerp(AngularChannel_new(Angle(a)), AngularChannel_new(Angle(b)),
                                Pos(p)))

\* a.invert(), a.normalize(), a.is_normalized() on an angular channel, also on
\* one that an interpolation or normalize returned
AngularBounded(a) ==
    /\ made.ctor = "none"
    /\ Len(calls) < MaxCalls
    /\ IF Fresh THEN TRUE
       ELSE LastCall.op \in {"AngularChannel::lerp", "AngularChannel::normalize"}
    /\ \E c \in {IF Fresh THEN AngularChannel_new(Angle(a)) ELSE LastCall.ret} :
           /\ ~Fresh => a = 1
           /\ \/ Call("AngularChannel::invert", c, AngularChannel_invert(c))
              \/ Call("AngularChannel::normalize", c, AngularChannel_normalize(c))
              \/ Call("AngularChannel::is_normalized", c, AngularChannel_is_normalized(c))

\* c.to_tuple() on a Lab or a Hwb color, also on the color from_tuple returned
ToTuple(h, x, y, z) ==
    /\ made.ctor = "none"
    /\ Len(calls) < MaxCalls
    /\ ~Fresh => (h = 1 /\ x = 1 /\ y = 1 /\ z = 1)
    /\ \/ /\ IF Fresh THEN TRUE ELSE LastCall.op = "Lab::from_tuple"
          /\ \E c \in {IF Fresh THEN Lab_from_channels(Chan(x), Chan(y), Chan(z))
                       ELSE LastCall.ret} :
                 Call("Lab::to_tuple", c, Lab_to_tuple(c))
       \/ /\ IF Fresh THEN x = 1 ELSE LastCall.op = "Hwb::from_tuple"
          /\ \E c \in {IF Fresh THEN Hwb_from_channels(Angle(h), Chan(y), Chan(z))
                       ELSE LastCall.ret} :
                 Call("Hwb::to_tuple", c, Hwb_to_tuple(c))

\* C::from_tuple(t) for Lab and Hwb, also on the tuple to_tuple returned
FromTuple(h, x, y, z) ==
    /\ made.ctor = "none"
    /\ Len(calls) < MaxCalls
    /\ ~Fresh => (h = 1 /\ x = 1 /\ y = 1 /\ z = 1)
    /\ \/ /\ IF Fresh THEN TRUE ELSE LastCall.op = "Lab::to_tuple"
          /\ \E t \in {IF Fresh THEN <<Chan(x), Chan(y), Chan(z)>> ELSE LastCall.ret} :
                 Call("Lab::from_tuple", t, Lab_from_tuple(t))
       \/ /\ IF Fresh THEN x = 1 ELSE LastCall.op = "Hwb::to_tuple"
          /\ \E t \in {IF Fresh THEN <<Angle(h), Chan(y), Chan(z)>> ELSE LastCall.ret} :
                 Call("Hwb::from_tuple", t, Hwb_from_tuple(t))

\* Lab::broadcast(v)
LabBroadcast(v) ==
    /\ Fresh
    /\ made.ctor = "none"
    /\ Call("Lab::broadcast", Chan(v), Lab_broadcast(Chan(v)))

\* c.clamp(min, max) on a Lab color
LabClamp(x, y, z, lo, hi) ==
    /\ Fresh
    /\ made.ctor = "none"
    /\ \E c \in {Lab_from_channels(Chan(x), Chan(y), Chan(z))} :
           Call("Lab::clamp", <<c, Chan(lo), Chan(hi)>>, Lab_clamp(c, Chan(lo), Chan(hi)))

\* FreeChannel::min_bound() and FreeChannel::max_bound(), asked for channel a
FreeChannelBounds(a) ==
    /\ Fresh
    /\ made.ctor = "none"
    /\ Call("FreeChannel::bounds", FreeChannel_new(Chan(a)),
            [min_bound |-> FreeChannel_min_bound, max_bound |-> FreeChannel_max_bound])

\* a.channel_cast::<To>() and a.scalar_cast::<To>() on a free channel
FreeChannelCast(a, f) ==
    /\ Fresh
    /\ made.ctor = "none"
    /\ \E c \in {FreeChannel_new(Chan(a))}, To \in {[channel |-> "FreeChannel", format |-> f]} :
           \/ Call("FreeChannel::channel_cast", <<c, To>>, FreeChannel_channel_cast(c, To))
           \/ Call("FreeChannel::scalar_cast", <<c, To>>, FreeChannel_scalar_cast(c, f))

ChannelNext ==
    \/ \E a \in ChanIdx : FreeChannelBounds(a)
    \/ \E v \in ChanIdx : LabBroadcast(v)
    \/ \E x \in ChanIdx, y \in ChanIdx, z \in ChanIdx, lo \in ChanIdx, hi \in ChanIdx :
           LabClamp(x, y, z, lo, hi)
    \/ \E h \in AngleIdx, x \in ChanIdx, y \in ChanIdx, z \in ChanIdx : ToTuple(h, x, y, z)
    \/ \E h \in AngleIdx, x \in ChanIdx, y \in ChanIdx, z \in ChanIdx : FromTuple(h, x, y, z)
    \/ \E a \in ChanIdx, f \in Formats : FreeChannelCast(a, f)
    \/ \E a \in ChanIdx, b \in ChanIdx, p \in PosIdx : FreeLerp(a, b, p)
    \/ \E a \in AngleIdx, b \in AngleIdx, p \in PosIdx : AngularLerp(a, b, p)
    \/ \E a \in AngleIdx : AngularBounded(a)

ChannelSpec == Init /\ [][ChannelNext]_vars

\* the channel values of call i, and whether they are angles equal modulo the period
AngleEq(a, b) == Angle_normalize(a) = Angle_normalize(b)

LerpCalls == {i \in 1..Len(calls) : calls[i].op \in {"FreeChannel::lerp", "AngularChannel::lerp"}}

Arc(a, b) ==
    CHOOSE d \in {FSub(b, a), FAdd(FSub(b, a), Period), FSub(FSub(b, a), Period)} :
        \A e \in {FSub(b, a), FAdd(FSub(b, a), Period), FSub(FSub(b, a), Period)} :
            FLe(FAbs(d), FAbs(e))

\* C15: an angular channel is interpolated along the shorter arc: between 350
\* and 10 degrees at pos = 0.5 the result is 0 degrees (as 0 or 360), not 180;
\* for two angles less than half a period apart and pos in [0, 1] the result
\* is on the shorter arc between them, pos of the way along it.
C15_AngularLerpTakesShorterArc ==
    \A i \in LerpCalls :
        calls[i].op = "AngularChannel::lerp" =>
            \A a \in {calls[i].arg[1].v}, b \in {calls[i].arg[2].v},
               pos \in {calls[i].arg[3]}, ret \in {calls[i].ret.v} :
                /\ (a = Angle(1) /\ b = Angle(2) /\ pos = Pos(3)) =>
                       /\ ret \in {Zero, Period}
                       /\ ~AngleEq(ret, HalfTurn)
                /\ (FLt(FAbs(Arc(a, b)), HalfTurn) /\ FLe(Zero, pos) /\ FLe(pos, One)) =>
                       /\ FSub(ret, a) = FMul(Arc(a, b), pos)
                       /\ FLe(FAbs(FSub(ret, a)), FAbs(Arc(a, b)))
                       /\ FLt(FAbs(FSub(ret, a)), HalfTurn)

\* 350 and 10 degrees were interpolated at pos = 0.5
C15_Witness ==
    /\ ~Fresh
    /\ LastCall.op = "AngularChannel::lerp"
    /\ LastCall.arg = <<AngularChannel_new(Angle(1)), AngularChannel_new(Angle(2)), Pos(3)>>
    /\ AngleEq(LastCall.ret.v, Zero)

CastCalls ==
    {i \in 1..Len(calls) : calls[i].op \in {"FreeChannel::channel_cast", "FreeChannel::scalar_cast"}}

\* the scalar a cast returned: channel_cast wraps it in the target channel
CastResult(i) ==
    IF calls[i].op = "FreeChannel::channel_cast" THEN calls[i].ret.v ELSE calls[i].ret

\* C17: channel_cast and scalar_cast of a free channel to the 8-bit format give
\* an integer in [0, 255]: 0 for a value below 0, 255 for a value above 255,
\* otherwise an integer at most one half away from the value; to the channel's
\* own format they give the value back; channel_cast returns a channel of the
\* target type, and no cast fails.
C17_CastRoundsAndClamps ==
    /\ CastCalls # {} => panic = NoPanic
    /\ \A i \in CastCalls :
           \A v \in {calls[i].arg[1].v}, To \in {calls[i].arg[2]}, r \in {CastResult(i)} :
               /\ calls[i].op = "FreeChannel::channel_cast" =>
                      calls[i].ret.channel = To.channel
               /\ To.format = "f32" => r = v
               /\ To.format = "u8" =>
                      /\ r \in 0..U8Max
                      /\ FLt(v, Zero) => r = 0
                      /\ FLt(FromInt(U8Max), v) => r = U8Max
                      /\ (FLe(Zero, v) /\ FLe(v, FromInt(U8Max))) =>
                             FLe(FAbs(FSub(FromInt(r), v)), Dec(5, 1))

\* 300.5 was cast to the 8-bit format and came out as 255
C17_Witness ==
    /\ ~Fresh
    /\ LastCall.op = "FreeChannel::scalar_cast"
    /\ LastCall.arg[1] = FreeChannel_new(Chan(4))
    /\ LastCall.arg[2].format = "u8"
    /\ LastCall.ret = U8Max

ToTupleOps == {"Lab::to_tuple", "Hwb::to_tuple"}
FromTupleOps == {"Lab::from_tuple", "Hwb::from_tuple"}

\* call i is a conversion of what call i - 1, the opposite conversion, returned
ConvertsBack(i) ==
    /\ i > 1
    /\ \/ calls[i].op \in FromTupleOps /\ calls[i - 1].op \in ToTupleOps
       \/ calls[i].op \in ToTupleOps /\ calls[i - 1].op \in FromTupleOps
    /\ calls[i].arg = calls[i - 1].ret

ClampedTo(c, r, lo, hi) ==
    /\ FLt(c, lo) => r = lo
    /\ FLt(hi, c) => r = hi
    /\ (FLe(lo, c) /\ FLe(c, hi)) => r = c
    /\ FLe(lo, r) /\ FLe(r, hi)

\* C19: broadcast(v) is the color with every channel v; clamp(min, max) with
\* min <= max replaces each channel below min by min, each channel above max
\* by max and leaves every other channel as it is, all three channels by the
\* same rule.
C19_BroadcastAndClampAreUniform ==
    \A i \in 1..Len(calls) :
        /\ calls[i].op = "Lab::broadcast" =>
               \A v \in {calls[i].arg}, t \in {Lab_to_tuple(calls[i].ret)} :
                   \A k \in 1..3 : t[k] = v
        /\ calls[i].op = "Lab::clamp" =>
               \A c \in {Lab_to_tuple(calls[i].arg[1])}, lo \in {calls[i].arg[2]},
                  hi \in {calls[i].arg[3]}, r \in {Lab_to_tuple(calls[i].ret)} :
                   FLe(lo, hi) => \A k \in 1..3 : ClampedTo(c[k], r[k], lo, hi)

\* (25.5, -50, 300.5) was clamped between 0 and 25.5: the first channel stays,
\* the second becomes 0, the third 25.5
C19_Witness ==
    /\ ~Fresh
    /\ LastCall.op = "Lab::clamp"
    /\ LastCall.arg = <<Lab_from_channels(Chan(2), Chan(3), Chan(4)), Chan(1), Chan(2)>>
    /\ LastCall.ret = Lab_from_channels(Chan(2), Chan(1), Chan(2))

\* the direction (x/y, 1, (1 - x - y)/y) of the chromaticity the caller wrote as
\* literal i
Direction(i) ==
    Only({ <<FDiv(x, y), One, FDiv(FSub(FSub(One, x), y), y)>>
           : x \in {Dec(PrimaryLits[i][1], 4)}, y \in {Dec(PrimaryLits[i][2], 4)} })

\* entry (i, j) of a 3x3 matrix, rows and columns counted from 1
Entry(m, i, j) == m[3 * (i - 1) + j]

\* forward is the matrix with forward[i][j] = S_j * d_j[i], where d_1, d_2, d_3
\* are the directions of the red, green and blue primary, P has them as its
\* columns and S = P^-1 x white
IsColumnScaled(forward, d, white) ==
    \A P \in {<< d[1][1], d[2][1], d[3][1],
                 d[1][2], d[2][2], d[3][2],
                 d[1][3], d[2][3], d[3][3] >>} :
        /\ inverse(P).some
        /\ \A S \in {transform_vector(inverse(P).v, white)} :
               \A i \in 1..3, j \in 1..3 : Entry(forward, i, j) = FMul(S[j], d[j][i])

\* C20: the forward matrix of a space built from primaries is, entry for entry
\* and bit for bit, forward[i][j] = S_j * d_j[i] with d_j = (x_j/y_j, 1,
\* (1 - x_j - y_j)/y_j) for the red, green and blue primary in that order, P
\* the matrix with columns d_r, d_g, d_b and S = P^-1 x white point: column j
\* of P scaled by S_j. It is the matrix the space holds when the constructor
\* returns and the matrix get_xyz_transform() returns.
C20_ForwardIsColumnScaledPrimaries ==
    (Derived /\ space.kind # "none" /\ (Fresh \/ LastCall.op = "get_xyz_transform")) =>
        \A d \in {<<Direction(made.red), Direction(made.green), Direction(made.blue)>>},
           white \in {Xyz_to_tuple(White(made.white))} :
            IF Fresh THEN IsColumnScaled(Linear_get_xyz_transform(TheLinearSpace), d, white)
            ELSE IsColumnScaled(LastCall.ret, d, white)

\* get_xyz_transform() returned the finite, asymmetric matrix of a space built
\* from primaries other than the sRGB ones
C20_Witness ==
    /\ Derived /\ ~SrgbD65
    /\ ~Fresh
    /\ LastCall.op = "get_xyz_transform"
    /\ AllFinite(LastCall.ret)
    /\ Entry(LastCall.ret, 1, 2) # Entry(LastCall.ret, 2, 1)

\* row i of the 3x3 matrix m times the triple v, summed left to right
RowTimes(m, i, v) ==
    FAdd(FAdd(FMul(Entry(m, i, 1), v[1]), FMul(Entry(m, i, 2), v[2])),
         FMul(Entry(m, i, 3), v[3]))

\* C21: on a linear and on an encoded space, apply_transform(v) is the matrix
\* get_xyz_transform() returns times v, and color_to_xyz of a color tagged
\* Linear with channels v (convert_to_xyz) is the Xyz with exactly the
\* components of apply_transform(v), x, y, z in that order.
C21_ApplyTransformIsForwardTimesVector ==
    \A i \in 1..Len(calls) :
        /\ calls[i].op = "apply_transform" =>
               \A m \in {Linear_get_xyz_transform(TheLinearSpace)}, v \in {calls[i].arg} :
                   calls[i].ret = <<RowTimes(m, 1, v), RowTimes(m, 2, v), RowTimes(m, 3, v)>>
        /\ (calls[i].op = "color_to_xyz" /\ calls[i].arg.encoding = LinearEncoding) =>
               \A v \in {Rgb_to_tuple(calls[i].arg.color)} :
                   Xyz_to_tuple(calls[i].ret) =
                       IF space.kind = "linear" THEN Linear_apply_transform(space.s, v)
                       ELSE Encoded_apply_transform(space.s, v)

\* (0.25, 0.5, 0.75), tagged Linear, was converted on a space built from
\* primaries, to three different finite components
C21_Witness ==
    /\ Derived /\ ~ZeroY
    /\ ~Fresh
    /\ LastCall.op = "color_to_xyz"
    /\ LastCall.arg.encoding = LinearEncoding
    /\ LastCall.arg.color = RgbOf(5)
    /\ LastCall.ret[1] # LastCall.ret[3]

\* the decode_color calls made on an encoded space
EncodedDecodeCalls ==
    {i \in 1..Len(calls) : calls[i].op = "decode_color" /\ space.kind = "encoded"}

SameDirection(a, b) == \E k \in (0 - 3)..3 : FAdd(a, FMul(FromInt(k), Period)) = b

ZeroScaleWhite ==
    \/ made.white \in ZeroWhiteIdx
    \/ made.white \in RedGreenWhiteIdx /\ {1, 2} \subseteq {made.red, made.green, made.blue}

\* C24 as stated: LinearColorSpace::new returns a color space for linearly
\* independent primaries with non-zero y, whatever the white point.
C24_WhitePointNeverFails ==
    (made.ctor = "LinearColorSpace::new" /\ ~Collinear /\ ~ZeroY) =>
        space.kind = "linear" /\ panic = NoPanic

\* C24 amended: for linearly independent primaries with non-zero y,
\* LinearColorSpace::new returns a color space for D65, equal energy and D50,
\* and panics in expect() for a white point that gives a scaling factor of
\* zero, (0, 0, 0) among them: the forward matrix then has no inverse.
C24_ZeroScaleWhitePanics ==
    (made.ctor = "LinearColorSpace::new" /\ ~Collinear /\ ~ZeroY) =>
        IF ZeroScaleWhite THEN space = NoSpace /\ panic = PanicExpect
        ELSE space.kind = "linear" /\ panic = NoPanic

\* LinearColorSpace::new was called with the sRGB primaries and the white point
\* (0, 0, 0), and panicked
C24_Witness ==
    /\ made.ctor = "LinearColorSpace::new"
    /\ made.red = 1 /\ made.green = 2 /\ made.blue = 3
    /\ made.white \in ZeroWhiteIdx
    /\ panic = PanicExpect

\* C25: the bounds of FreeChannel are a proper range: max_bound() is the
\* largest value of the scalar type, min_bound() the smallest, min_bound() <
\* max_bound(), and every channel value lies between them.
C25_FreeChannelBoundsAreProper ==
    \A i \in 1..Len(calls) :
        calls[i].op = "FreeChannel::bounds" =>
            \A v \in {FreeChannel_value(calls[i].arg)}, b \in {calls[i].ret} :
                /\ b.min_bound = T_min_value
                /\ b.max_bound = T_max_value
                /\ FLt(b.min_bound, b.max_bound)
                /\ FLe(b.min_bound, v) /\ FLe(v, b.max_bound)

\* C26: on an encoded space, color_to_xyz of a bare Rgb is color_to_xyz of the
\* same Rgb tagged with the space's own encoding, whichever of the two is
\* called; on a gamma-encoded space built from primaries it is not what the
\* Rgb tagged Linear converts to (channels 0.5 or 0.25, 0.5, 0.75).
C26_BareRgbIsInTheSpacesEncoding ==
    space.kind = "encoded" =>
        \A i \in 1..Len(calls) :
            /\ calls[i].op = "color_to_xyz(&Rgb)" =>
                   \A c \in {calls[i].arg}, e \in {encoding(space.s)} :
                       /\ calls[i].ret = Encoded_color_to_xyz(space.s, EncodedColor_new(c, e))
                       /\ (e = GammaEncoding /\ Derived /\ ~ZeroY /\ c \in {RgbOf(3), RgbOf(5)}) =>
                              calls[i].ret #
                                  Encoded_color_to_xyz(space.s, EncodedColor_new(c, LinearEncoding))
            /\ (calls[i].op = "color_to_xyz" /\ calls[i].arg.via = "EncodedColor::new"
                /\ calls[i].arg.encoding = encoding(space.s)) =>
                   calls[i].ret = Rgb_color_to_xyz(space.s, calls[i].arg.color)

\* the bare Rgb (0.25, 0.5, 0.75) was converted on a gamma-encoded space
C26_Witness ==
    /\ space.kind = "encoded"
    /\ encoding(space.s) = GammaEncoding
    /\ ~Fresh
    /\ LastCall.op = "color_to_xyz(&Rgb)"
    /\ LastCall.arg = RgbOf(5)
    /\ AllFinite(Encoded_get_xyz_transform(space.s))

\* the caller's encoded space with its encoding replaced by e: the same
\* primaries, white point and matrices
SiblingSpace(e) == [space.s EXCEPT !.encoding = e]

\* C27: color_to_xyz of an EncodedColor on an encoded space returns what every
\* encoded space with the same primaries and white point and any other
\* encoding returns for it: the color's tag decides the curve, the space's
\* encoding does not enter.
C27_SpaceEncodingDoesNotEnter ==
    (/\ space.kind = "encoded"
     /\ ~Fresh
     /\ LastCall.op = "color_to_xyz"
     /\ LastCall.arg.via = "EncodedColor::new") =>
        \A e \in Encodings :
            LastCall.ret = Encoded_color_to_xyz(SiblingSpace(e), LastCall.arg)

\* (0.25, 0.5, 0.75) tagged with the linear encoding was converted on a
\* gamma-encoded space with finite matrices
C27_Witness ==
    /\ space.kind = "encoded"
    /\ encoding(space.s) = GammaEncoding
    /\ ~Fresh
    /\ LastCall.op = "color_to_xyz"
    /\ LastCall.arg = EncodedColor_new(RgbOf(5), LinearEncoding)
    /\ AllFinite(Encoded_get_xyz_transform(space.s))

\* the calls that converted a pure primary tagged Linear: (1, 0, 0), (0, 1, 0)
\* or (0, 0, 1)
PureCalls ==
    {i \in XyzCalls : /\ calls[i].arg.encoding = LinearEncoding
                      /\ calls[i].arg.color \in {RgbOf(p) : p \in PureIdx}}

\* the primary of the space that the pure color c is all of
PrimaryOf(c) ==
    IF c[1] = One THEN Linear_red_primary(TheLinearSpace)
    ELSE IF c[2] = One THEN Linear_green_primary(TheLinearSpace)
    ELSE Linear_blue_primary(TheLinearSpace)

\* the Xyz that call i returned has, within tol, the chromaticity of the primary
\* it converted: X / (X + Y + Z) = x and Y / (X + Y + Z) = y
KeepsChromaticity(i, tol) ==
    \A xyz \in {Xyz_to_tuple(calls[i].ret)}, p \in {PrimaryOf(calls[i].arg.color)} :
        \A sum \in {FAdd(FAdd(xyz[1], xyz[2]), xyz[3])} :
            /\ Near(FDiv(xyz[1], sum), p.x, tol)
            /\ Near(FDiv(xyz[2], sum), p.y, tol)

\* C28 as stated: in every color space a caller holds, whichever constructor
\* returned it, a pure primary converts to an XYZ with the chromaticity of
\* that primary (within 1e-4).
C28_EverySpaceKeepsChromaticities == \A i \in PureCalls : KeepsChromaticity(i, Tol1e4)

\* C28 amended: in a color space whose matrices were derived from linearly
\* independent primaries with y > 0, linear RGB (1, 0, 0), (0, 1, 0) and
\* (0, 0, 1) convert to XYZ values whose chromaticities are those of the red,
\* green and blue primary, within 1e-5.
C28_DerivedSpaceKeepsChromaticities ==
    (Derived /\ ~Collinear /\ ~ZeroY) => \A i \in PureCalls : KeepsChromaticity(i, Tol1e5)

\* (0, 0, 1), tagged Linear, was converted on a space built from primaries
C28_Witness ==
    /\ Derived /\ ~Collinear /\ ~ZeroY
    /\ PureCalls # {}
    /\ LastCall.arg.color[3] = One
    /\ IsFinite(LastCall.ret[1])

\* C29: decode_color of a linear space returns its argument tagged Linear, the
\* channels as they were given; decode_color of an encoded space returns, tagged
\* Linear, the channels that the space's decode_channel gives for each channel
\* of the argument.
C29_DecodeColorFrame ==
    \A i \in 1..Len(calls) :
        calls[i].op = "decode_color" =>
            \A c \in {calls[i].arg}, r \in {calls[i].ret} :
                /\ r.encoding = LinearEncoding
                /\ space.kind = "linear" =>
                       /\ Rgb_to_tuple(r.color) = Rgb_to_tuple(c)
                       /\ r.via = "with_encoding"
                /\ space.kind = "encoded" =>
                       /\ Rgb_to_tuple(r.color) =
                              <<decode_channel(space.s, c[1]), decode_channel(space.s, c[2]),
                                decode_channel(space.s, c[3])>>
                       /\ r.via = "decode"

\* decode_color of a linear space was given (0.25, 0.5, 0.75)
C29_Witness ==
    /\ space.kind = "linear"
    /\ Len(calls) = 1
    /\ LastCall.op = "decode_color"
    /\ LastCall.arg = RgbOf(5)
    /\ LastCall.ret.color = RgbOf(5)

=============================================================================
